---- MODULE Spec2Model ----
(***************************************************************************)
(* Model of libdnscheck (src/libdnscheck/src/lib.rs): the DNSBL query      *)
(* encoder (format_ip, format_v6), the resolver-error classifier           *)
(* (From<MethodErr>, From<dbus::Error>), the single-pair lookup and the    *)
(* batch count_lists.                                                      *)
(*                                                                         *)
(* Strings are TLA+ strings; a byte is a number in 0..255.  The verbosity  *)
(* parameter `output` only selects diagnostic printing (lines 76, 94, 103) *)
(* and never influences a value or a branch that the model keeps, so it is *)
(* not a variable of the model.                                            *)
(***************************************************************************)
EXTENDS Integers, Sequences, FiniteSets, TLC

VARIABLES
    queries,    \* count_lists argument: sequence of Query
    sources,    \* count_lists argument: sequence of source strings
    pc,         \* "idle", "connect" (lookup at line 80), "resolve" (line 99), "done"
    pos,        \* position of the flat_map iterator in the pair sequence
    conn,       \* latest lookup call: result of Connection::new_system() (line 80)
    queryhost,  \* latest lookup call: local queryhost (line 87)
    hostname,   \* latest lookup call: local hostname (line 92)
    reply,      \* latest lookup call: what proxy.resolve_hostname returned (line 99,
                \* before map_err); None while the call has none
    acc,        \* the Vec that collect() is building
    ret,        \* value returned by count_lists
    lookups,    \* history: the lookup calls that returned, with their return values
    calls       \* history: the ResolveHostname requests sent to the resolver

vars == <<queries, sources, pc, pos, conn, queryhost, hostname, reply, acc, ret, lookups, calls>>

----------------------------------------------------------------------------
(* Bounds of the model *)

MaxQueries == 2
MaxSources == 2

----------------------------------------------------------------------------
(* Values *)

None == [tag |-> "None"]
Ok(v) == [tag |-> "Ok", val |-> v]
Err(e) == [tag |-> "Err", err |-> e]

\* enum Query (lines 12-15), IpAddr::V4 / IpAddr::V6 carried by Address
Domain(d) == [kind |-> "Domain", domain |-> d]
Address(ip) == [kind |-> "Address", ip |-> ip]
V4(o) == [v |-> "V4", octets |-> o]
V6(o) == [v |-> "V6", octets |-> o]

\* enum DnsCheckError (lines 30-38)
DBus(name, desc) == [tag |-> "DBus", f0 |-> name, f1 |-> desc]
NxDomain(desc) == [tag |-> "NxDomain", f0 |-> desc]
Unknown == [tag |-> "Unknown"]

\* struct DnsListMembership (lines 40-44)
DnsListMembership(n, l, f) == [name |-> n, list |-> l, found |-> f]

----------------------------------------------------------------------------
(* Number formatting: "{}" of a u8 / u16 and "{:x}" *)

Digit(d) == SubSeq("0123456789", d + 1, d + 1)

HexDigit(d) == SubSeq("0123456789abcdef", d + 1, d + 1)

RECURSIVE Dec(_)
Dec(n) == IF n < 10 THEN Digit(n) ELSE Dec(n \div 10) \o Digit(n % 10)

RECURSIVE LowerHex(_)
LowerHex(n) == IF n < 16 THEN HexDigit(n) ELSE LowerHex(n \div 16) \o HexDigit(n % 16)

----------------------------------------------------------------------------
(* QueryEncoder: format_ip (lines 126-137) and format_v6 (lines 139-145) *)

\* faulty variant: the low nibble of each octet is emitted before the high one
RECURSIVE FlatMapNibblesLowFirst(_)
FlatMapNibblesLowFirst(octs) ==
    IF octs = <<>> THEN <<>>
    ELSE <<Head(octs) % 16, Head(octs) \div 16>> \o FlatMapNibblesLowFirst(Tail(octs))

\* .flat_map(|o| vec![o >> 4, o & 0xF])
RECURSIVE FlatMapNibbles(_)
FlatMapNibbles(octs) ==
    IF octs = <<>> THEN <<>>
    ELSE <<Head(octs) \div 16, Head(octs) % 16>> \o FlatMapNibbles(Tail(octs))

\* .fold("".to_owned(), |a, d| format!("{}.{}", d, a)) over the digits ds
RECURSIVE FoldDigits(_, _)
FoldDigits(a, ds) ==
    IF ds = <<>> THEN a
    ELSE FoldDigits(Head(ds) \o "." \o a, Tail(ds))

format_v6(ip) ==
    LET nibbles == FlatMapNibbles(ip.octets)
        digits == [k \in 1..Len(nibbles) |-> LowerHex(nibbles[k])]
    IN FoldDigits("", digits)

\* faulty variant: the IPv4 octets are written in network order
format_ip_forward(ip) ==
    IF ip.v = "V4"
    THEN Dec(ip.octets[1]) \o "." \o Dec(ip.octets[2]) \o "." \o
         Dec(ip.octets[3]) \o "." \o Dec(ip.octets[4]) \o "."
    ELSE format_v6(ip)

format_ip(ip) ==
    IF ip.v = "V4"
    THEN Dec(ip.octets[4]) \o "." \o Dec(ip.octets[3]) \o "." \o
         Dec(ip.octets[2]) \o "." \o Dec(ip.octets[1]) \o "."
    ELSE format_v6(ip)

----------------------------------------------------------------------------
(* Display for Query (lines 17-28): "{}" of the IpAddr or of the domain *)

DisplayIpv4(o) == Dec(o[1]) \o "." \o Dec(o[2]) \o "." \o Dec(o[3]) \o "." \o Dec(o[4])

\* the eight 16-bit segments of an IPv6 address
Segments(o) == [i \in 1..8 |-> o[2 * i - 1] * 256 + o[2 * i]]

\* segments a..b in hexadecimal, joined by ":"
RECURSIVE FmtSubslice(_, _, _)
FmtSubslice(seg, a, b) ==
    IF a > b THEN ""
    ELSE IF a = b THEN LowerHex(seg[a])
    ELSE LowerHex(seg[a]) \o ":" \o FmtSubslice(seg, a + 1, b)

\* length of the run of zero segments that starts at segment s
RECURSIVE ZeroRun(_, _)
ZeroRun(seg, s) == IF s > 8 \/ seg[s] # 0 THEN 0 ELSE 1 + ZeroRun(seg, s + 1)

DisplayIpv6(o) ==
    LET seg == Segments(o)
        start == CHOOSE s \in 1..8 :
                    \A t \in 1..8 : ZeroRun(seg, t) < ZeroRun(seg, s)
                                    \/ (ZeroRun(seg, t) = ZeroRun(seg, s) /\ s <= t)
        len == ZeroRun(seg, start)
    IN IF (\A i \in 1..5 : seg[i] = 0) /\ seg[6] = 65535
       THEN "::ffff:" \o DisplayIpv4(SubSeq(o, 13, 16))
       ELSE IF len > 1
       THEN FmtSubslice(seg, 1, start - 1) \o "::" \o FmtSubslice(seg, start + len, 8)
       ELSE FmtSubslice(seg, 1, 8)

to_string(query) ==
    IF query.kind = "Address"
    THEN IF query.ip.v = "V4" THEN DisplayIpv4(query.ip.octets)
         ELSE DisplayIpv6(query.ip.octets)
    ELSE query.domain

----------------------------------------------------------------------------
(* ErrorClassifier: From<MethodErr> (lines 53-63), From<dbus::Error> (65-69) *)

NXDOMAIN == "org.freedesktop.resolve1.DnsError.NXDOMAIN"

\* str::starts_with
starts_with(s, p) == Len(s) >= Len(p) /\ SubSeq(s, 1, Len(p)) = p

\* a dbus::Error / MethodErr is the pair (error name, message) of a D-Bus
\* error reply; MethodErr::from keeps both
MethodErr(name, description) == [errorname |-> name, description |-> description]

MethodErrFrom(error) == MethodErr(error.name, error.message)

\* faulty variant: NXDOMAIN is recognised by equality instead of by prefix
FromMethodErrExact(e) ==
    IF e.errorname = NXDOMAIN
    THEN NxDomain(e.description)
    ELSE DBus(e.errorname, e.description)

\* faulty variant: identifier and description change places
FromMethodErrSwapped(e) ==
    IF starts_with(e.errorname, NXDOMAIN)
    THEN NxDomain(e.description)
    ELSE DBus(e.description, e.errorname)

FromMethodErr(e) ==
    IF starts_with(e.errorname, NXDOMAIN)
    THEN NxDomain(e.description)
    ELSE DBus(e.errorname, e.description)

\* faulty variant: a dbus::Error becomes the catch-all Unknown
FromDbusErrorUnknown(error) == Unknown

FromDbusError(error) == FromMethodErr(MethodErrFrom(error))


----------------------------------------------------------------------------
(* Inputs and the resolver's possible behaviour *)

Addr2001db8 == <<32, 1, 13, 184, 0, 0, 0, 0, 0, 0, 0, 0, 0, 0, 0, 1>>

\* the queries and sources of a batch are runs of these cycles
QueryCycle ==
    << Address(V4(<<192, 0, 2, 1>>)), Domain("example.com"), Address(V6(Addr2001db8)) >>

SourceCycle == << "zen.spamhaus.org", "bl.spamcop.net" >>

\* the n elements of the cycle that follow its first r
Run(cycle, r, n) == [i \in 1..n |-> cycle[((i + r - 1) % Len(cycle)) + 1]]

Runs(cycle, max) == { Run(cycle, r, n) : r \in 0..(Len(cycle) - 1), n \in 0..max }

\* address records (family, scope identifier, raw address bytes) of a reply
Listed2 == <<2, 0, <<127, 0, 0, 2>>>>
Listed4 == <<2, 0, <<127, 0, 0, 4>>>>

\* successful replies: (addresses, canonical name, flags)
Responses ==
    { <<a, c, f>> : a \in {<<>>, <<Listed2>>, <<Listed2, Listed4>>},
                    c \in {"", "canonical.example"},
                    f \in {0, 1} }

\* error replies of the resolver service: (error name, message)
ResolverErrors ==
    { [name |-> NXDOMAIN, message |-> "not found"],
      [name |-> NXDOMAIN, message |-> "no such name"],
      [name |-> NXDOMAIN \o ".Extended", message |-> "not found"],
      [name |-> "org.freedesktop.resolve1.DnsError.NXRRSET", message |-> "rrset missing"],
      [name |-> "org.freedesktop.resolve1.DnsError.SERVFAIL", message |-> "server failure"],
      [name |-> "org.freedesktop.resolve1.DnsError.SERVFAIL", message |-> "upstream failure"],
      [name |-> "org.freedesktop.DBus.Error.NoReply", message |-> "timed out"] }

\* errors of Connection::new_system(): raised by the bus library or the bus
\* daemon, whose error names all lie in the org.freedesktop.DBus.Error namespace
ConnectErrors ==
    { [name |-> "org.freedesktop.DBus.Error.NoServer", message |-> "connection refused"],
      [name |-> "org.freedesktop.DBus.Error.AccessDenied", message |-> "not allowed"] }

\* libc::AF_INET
AF_INET == 2

----------------------------------------------------------------------------
(* lookup (lines 71-124) *)

\* lines 87-90
QueryHost(query) ==
    IF query.kind = "Domain" THEN query.domain \o "." ELSE format_ip(query.ip)

\* faulty variant: the trailing dot is missing
HostnameNoDot(qh, source) == qh \o source

\* line 92
Hostname(qh, source) == qh \o source \o "."

\* line 100: the ResolveHostname request
Request(name) == [flags |-> 0, name |-> name, family |-> AF_INET, extra |-> 0]

\* line 101: .map_err(From::from)
map_err(r) == IF r.tag = "Ok" THEN r ELSE Err(FromDbusError(r.err))

\* faulty variant: found is taken from the canonical name instead of the addresses
map_or_else_canonical(source, query, result) ==
    IF result.tag = "Err"
    THEN IF result.err.tag = "NxDomain"
         THEN Ok(DnsListMembership(to_string(query), source, FALSE))
         ELSE Err(result.err)
    ELSE Ok(DnsListMembership(to_string(query), source, result.val[2] # ""))

\* lines 107-123: result.map_or_else(..)
map_or_else(source, query, result) ==
    IF result.tag = "Err"
    THEN IF result.err.tag = "NxDomain"
         THEN Ok(DnsListMembership(to_string(query), source, FALSE))
         ELSE Err(result.err)
    ELSE Ok(DnsListMembership(to_string(query), source, result.val[1] # <<>>))

----------------------------------------------------------------------------
(* count_lists (lines 147-160) *)

\* faulty variant: the loops are nested the other way round (source-major)
flat_map_source_major(i, qs, ss) ==
    [k \in 1..(Len(qs) * Len(ss)) |->
        [q |-> ((k - 1) % Len(qs)) + 1, s |-> ((k - 1) \div Len(qs)) + 1]]

\* sources.iter().map(move |&source| lookup(source, query, ..)) for query i
InnerMap(i, ss) == [j \in 1..Len(ss) |-> [q |-> i, s |-> j]]

\* queries.iter().flat_map(..): the pairs in the order the iterator yields them
RECURSIVE flat_map(_, _, _)
flat_map(i, qs, ss) ==
    IF i > Len(qs) THEN <<>> ELSE InnerMap(i, ss) \o flat_map(i + 1, qs, ss)

Pairs == flat_map(1, queries, sources)

CurQuery == queries[Pairs[pos].q]
CurSource == sources[Pairs[pos].s]

\* faulty variant: an Err ends the batch with the records collected so far
collect_partial(r) ==
    IF r.tag = "Err"
    THEN /\ ret' = Ok(acc)
         /\ pc' = "done"
         /\ UNCHANGED <<acc, pos>>
    ELSE /\ acc' = Append(acc, r.val)
         /\ pos' = pos + 1
         /\ IF pos + 1 > Len(Pairs)
            THEN ret' = Ok(acc') /\ pc' = "done"
            ELSE ret' = ret /\ pc' = "connect"

\* faulty variant: every pair is evaluated and the first Err is reported at the end
collect_keep_going(r) ==
    /\ acc' = IF r.tag = "Err" THEN acc ELSE Append(acc, r.val)
    /\ pos' = pos + 1
    /\ LET first == IF r.tag = "Err" /\ ret = None THEN Err(r.err) ELSE ret
       IN IF pos + 1 > Len(Pairs)
          THEN ret' = (IF first = None THEN Ok(acc') ELSE first) /\ pc' = "done"
          ELSE ret' = first /\ pc' = "connect"

\* one step of .collect::<Result<Vec<_>, _>>() on the item r: an Err stops the
\* iteration and is the return value (the Vec built so far is not returned);
\* an Ok is pushed, and when the iterator is exhausted the Vec is returned.
collect(r) ==
    IF r.tag = "Err"
    THEN /\ ret' = Err(r.err)
         /\ pc' = "done"
         /\ UNCHANGED <<acc, pos>>
    ELSE /\ acc' = Append(acc, r.val)
         /\ pos' = pos + 1
         /\ IF pos + 1 > Len(Pairs)
            THEN ret' = Ok(acc') /\ pc' = "done"
            ELSE ret' = ret /\ pc' = "connect"

\* the call: with no pair to evaluate collect returns the empty Vec at once
count_lists ==
    /\ pc = "idle"
    /\ IF Pairs = <<>>
       THEN ret' = Ok(<<>>) /\ pc' = "done"
       ELSE ret' = ret /\ pc' = "connect"
    /\ UNCHANGED <<queries, sources, pos, conn, queryhost, hostname, reply, acc, lookups, calls>>

\* line 80: Connection::new_system()? fails; the ? converts the error with
\* From<dbus::Error> and lookup returns it
LookupConnectFail(error) ==
    LET r == Err(FromDbusError(error))
    IN /\ pc = "connect"
       /\ conn' = Err(error)
       /\ queryhost' = ""
       /\ hostname' = ""
       /\ reply' = None
       /\ lookups' = Append(lookups, [pair |-> Pairs[pos], ret |-> r])
       /\ collect(r)
       /\ UNCHANGED <<queries, sources, calls>>

\* lines 80-100: connected; the hostname is built and the request is sent
LookupSend ==
    /\ pc = "connect"
    /\ conn' = Ok("Connection")
    /\ queryhost' = QueryHost(CurQuery)
    /\ hostname' = Hostname(queryhost', CurSource)
    /\ reply' = None
    /\ calls' = Append(calls, [pair |-> Pairs[pos], queryhost |-> queryhost',
                               request |-> Request(hostname')])
    /\ pc' = "resolve"
    /\ UNCHANGED <<queries, sources, pos, acc, ret, lookups>>

\* lines 99-123: the reply rp arrives and lookup returns
LookupReply(rp) ==
    LET r == map_or_else(CurSource, CurQuery, map_err(rp))
    IN /\ pc = "resolve"
       /\ reply' = rp
       /\ lookups' = Append(lookups, [pair |-> Pairs[pos], ret |-> r])
       /\ collect(r)
       /\ UNCHANGED <<queries, sources, conn, queryhost, hostname, calls>>

Init ==
    /\ queries \in Runs(QueryCycle, MaxQueries)
    /\ sources \in Runs(SourceCycle, MaxSources)
    /\ pc = "idle"
    /\ pos = 1
    /\ conn = None
    /\ queryhost = ""
    /\ hostname = ""
    /\ reply = None
    /\ acc = <<>>
    /\ ret = None
    /\ lookups = <<>>
    /\ calls = <<>>

Next ==
    \/ count_lists
    \/ \E error \in ConnectErrors : LookupConnectFail(error)
    \/ LookupSend
    \/ \E resp \in Responses : LookupReply(Ok(resp))
    \/ \E error \in ResolverErrors : LookupReply(Err(error))

Spec == Init /\ [][Next]_vars

----------------------------------------------------------------------------
(* A single lookup over a wide range of queries *)

ByteSamples == {0, 1, 2, 9, 10, 100, 192, 255}

AddrNibbles == <<1, 35, 69, 103, 137, 171, 205, 239, 254, 220, 186, 152, 118, 84, 50, 16>>
AddrZero == [i \in 1..16 |-> 0]

WideQueries ==
    { Address(V4(<<a, b, c, d>>)) : a \in ByteSamples, b \in ByteSamples,
                                    c \in ByteSamples, d \in ByteSamples }
    \cup { Address(V6([base EXCEPT ![p] = v])) :
              base \in {AddrZero, Addr2001db8, AddrNibbles}, p \in 1..16,
              v \in {0, 10, 15, 16, 165, 240, 255} }
    \cup { Domain(d) : d \in {"example.com", "a", "mail.example.org", "example.com."} }

InitWide ==
    /\ queries \in { <<q>> : q \in WideQueries }
    /\ sources = << SourceCycle[1] >>
    /\ pc = "idle"
    /\ pos = 1
    /\ conn = None
    /\ queryhost = ""
    /\ hostname = ""
    /\ reply = None
    /\ acc = <<>>
    /\ ret = None
    /\ lookups = <<>>
    /\ calls = <<>>

SpecWide == InitWide /\ [][Next]_vars

----------------------------------------------------------------------------
(* Notions the properties are stated with *)

NQ == Len(queries)
NS == Len(sources)

\* return value and arguments of the latest lookup call that returned
lres == lookups[Len(lookups)].ret
LastQuery == queries[lookups[Len(lookups)].pair.q]
LastSource == sources[lookups[Len(lookups)].pair.s]

\* a lookup return value that is an error other than NotFound
NonNotFoundErr(r) == r.tag = "Err" /\ r.err.tag # "NxDomain"

\* the identifier carries the resolver's NXDOMAIN error-name prefix
HasNxDomainPrefix(name) ==
    starts_with(name, "org.freedesktop.resolve1.DnsError.NXDOMAIN")

\* the pair at 0-based position i * |S| + j of the query-major order
PairAt(n) == [q |-> (n \div NS) + 1, s |-> (n % NS) + 1]

----------------------------------------------------------------------------
\* C1: when count_lists returns Ok it returns exactly |Q|*|S| records, the one at
\* index i*|S|+j having name = rendering of Q[i] and list = S[j]; and when no
\* lookup returned a non-NotFound error the finished call returned Ok.
C1_OrderedComplete ==
    /\ ret.tag = "Ok" =>
          /\ Len(ret.val) = NQ * NS
          /\ \A i \in 0..(NQ - 1), j \in 0..(NS - 1) :
                LET m == ret.val[i * NS + j + 1]
                IN m.name = to_string(queries[i + 1]) /\ m.list = sources[j + 1]
    /\ (pc = "done" /\ \A k \in 1..Len(lookups) : ~NonNotFoundErr(lookups[k].ret))
          => ret.tag = "Ok"

C1_Witness ==
    /\ ret.tag = "Ok"
    /\ NQ = 2 /\ NS = 2
    /\ queries[1] # queries[2]
    /\ ret.val[2].found /\ ~ret.val[3].found

\* C2: once a lookup has returned a non-NotFound error, count_lists has returned
\* Err carrying the error of the first such lookup, and nothing else: no
\* membership record is part of the return value.
C2_FailFast ==
    \A k \in 1..Len(lookups) :
        (NonNotFoundErr(lookups[k].ret)
         /\ \A h \in 1..(k - 1) : ~NonNotFoundErr(lookups[h].ret))
        => /\ pc = "done"
           /\ ret = [tag |-> "Err", err |-> lookups[k].ret.err]
           /\ DOMAIN ret = {"tag", "err"}

C2_Witness ==
    /\ ret.tag = "Err"
    /\ Len(acc) >= 1
    /\ Len(lookups) < NQ * NS

\* C3: a resolver error whose identifier starts with the NXDOMAIN prefix makes
\* lookup return Ok with found = false, name = rendering of the query and
\* list = source; the batch goes on; no lookup and no batch returns NxDomain.
C3_NxDomainAbsorbed ==
    /\ (reply # None /\ reply.tag = "Err" /\ HasNxDomainPrefix(reply.err.name)) =>
          /\ lres = Ok([name |-> to_string(LastQuery), list |-> LastSource,
                        found |-> FALSE])
          /\ acc[Len(acc)] = lres.val
          /\ IF Len(lookups) < NQ * NS
             THEN pc = "connect" /\ ret = None
             ELSE pc = "done" /\ ret = Ok(acc)
    /\ \A k \in 1..Len(lookups) :
          ~(lookups[k].ret.tag = "Err" /\ lookups[k].ret.err.tag = "NxDomain")
    /\ ~(ret.tag = "Err" /\ ret.err.tag = "NxDomain")

C3_Witness ==
    /\ reply # None /\ reply.tag = "Err"
    /\ reply.err.name = "org.freedesktop.resolve1.DnsError.NXDOMAIN.Extended"
    /\ pc = "connect"
    /\ LastQuery.kind = "Address"

\* C4: on a successful reply lookup returns Ok with found = (the address list is
\* not empty), name = rendering of the query and list = source, whatever the
\* canonical name and the flags.
C4_FoundIffAddresses ==
    (reply # None /\ reply.tag = "Ok") =>
        lres = Ok([name |-> to_string(LastQuery), list |-> LastSource,
                   found |-> (Len(reply.val[1]) > 0)])

C4_Witness ==
    /\ reply # None /\ reply.tag = "Ok"
    /\ reply.val[1] = <<>> /\ reply.val[2] # "" /\ reply.val[3] = 1
    /\ ~lres.val.found
    /\ lres.val.name = "2001:db8::1"

\* C5: a resolver error whose identifier does not start with the NXDOMAIN prefix
\* is returned by lookup as DBus(identifier, description), and count_lists
\* returns that same value; the class depends on the identifier alone.
C5_TransportVerbatim ==
    /\ (reply # None /\ reply.tag = "Err" /\ ~HasNxDomainPrefix(reply.err.name)) =>
          /\ lres = Err([tag |-> "DBus", f0 |-> reply.err.name, f1 |-> reply.err.message])
          /\ pc = "done"
          /\ ret = lres
    /\ \A e1 \in ResolverErrors \cup ConnectErrors, e2 \in ResolverErrors \cup ConnectErrors :
          FromMethodErr(MethodErr(e1.name, e1.message)).tag
             = FromMethodErr(MethodErr(e1.name, e2.message)).tag

C5_Witness ==
    /\ reply # None /\ reply.tag = "Err"
    /\ reply.err = [name |-> "org.freedesktop.resolve1.DnsError.SERVFAIL",
                    message |-> "upstream failure"]
    /\ ret.tag = "Err"
    /\ Len(acc) >= 1

----------------------------------------------------------------------------
(* Reading an encoded fragment back *)

DotTerminated(s) == Len(s) > 0 /\ SubSeq(s, Len(s), Len(s)) = "."

\* the labels of s, each ended by a dot, scanning from position i with the
\* current label starting at position start
RECURSIVE Labels(_, _, _)
Labels(s, start, i) ==
    IF i > Len(s) THEN <<>>
    ELSE IF SubSeq(s, i, i) = "."
    THEN <<SubSeq(s, start, i - 1)>> \o Labels(s, i + 1, i + 1)
    ELSE Labels(s, start, i + 1)

IsDigit(c) == \E d \in 0..9 : SubSeq("0123456789", d + 1, d + 1) = c

DigitVal(c) == CHOOSE d \in 0..9 : SubSeq("0123456789", d + 1, d + 1) = c

\* a decimal numeral without sign or leading zero
CanonicalDec(l) ==
    /\ Len(l) >= 1
    /\ \A i \in 1..Len(l) : IsDigit(SubSeq(l, i, i))
    /\ Len(l) > 1 => SubSeq(l, 1, 1) # "0"

RECURSIVE ParseDec(_)
ParseDec(l) ==
    IF Len(l) = 1 THEN DigitVal(l)
    ELSE 10 * ParseDec(SubSeq(l, 1, Len(l) - 1)) + DigitVal(SubSeq(l, Len(l), Len(l)))

\* nibble n (0..31) of the 16 octets expanded high nibble first
NibbleAt(o, n) ==
    IF n % 2 = 0 THEN o[(n \div 2) + 1] \div 16 ELSE o[(n \div 2) + 1] % 16

\* C6: the fragment built for an IPv4 address with octets [o0,o1,o2,o3] is
\* "o3.o2.o1.o0.": four decimal numerals, each followed by a dot, whose values
\* are the octets in reverse order.
C6_V4Reversed ==
    \A k \in 1..Len(calls) :
        LET q == queries[calls[k].pair.q]
            out == calls[k].queryhost
            L == Labels(out, 1, 1)
        IN (q.kind = "Address" /\ q.ip.v = "V4") =>
              /\ DotTerminated(out)
              /\ Len(L) = 4
              /\ \A n \in 1..4 :
                    CanonicalDec(L[n]) /\ ParseDec(L[n]) = q.ip.octets[5 - n]

C6_Witness ==
    /\ Len(calls) = 1
    /\ queries[1] = Address(V4(<<192, 0, 2, 1>>))
    /\ calls[1].queryhost = "1.2.0.192."
    /\ queryhost = "1.2.0.192."

\* C7: the fragment built for an IPv6 address is 32 lowercase hexadecimal digits,
\* each followed by a dot, the k-th digit (k = 0..31) being nibble 31-k of the
\* address.
C7_V6NibblesReversed ==
    \A k \in 1..Len(calls) :
        LET q == queries[calls[k].pair.q]
            out == calls[k].queryhost
        IN (q.kind = "Address" /\ q.ip.v = "V6") =>
              /\ Len(out) = 64
              /\ \A n \in 0..31 :
                    /\ SubSeq(out, 2 * n + 1, 2 * n + 1)
                          = SubSeq("0123456789abcdef", NibbleAt(q.ip.octets, 31 - n) + 1,
                                   NibbleAt(q.ip.octets, 31 - n) + 1)
                    /\ SubSeq(out, 2 * n + 2, 2 * n + 2) = "."

C7_Witness ==
    /\ Len(calls) = 1
    /\ queries[1] = Address(V6(Addr2001db8))
    /\ queryhost = "1.0.0.0.0.0.0.0.0.0.0.0.0.0.0.0.0.0.0.0.0.0.0.0.8.b.d.0.1.0.0.2."

\* C8: the name of every request is the encoded fragment of the query, then the
\* source, then one dot; for a Domain query the fragment is the domain and a dot.
C8_HostnameShape ==
    \A k \in 1..Len(calls) :
        LET q == queries[calls[k].pair.q]
            src == sources[calls[k].pair.s]
            fragment == IF q.kind = "Domain" THEN q.domain \o "." ELSE format_ip(q.ip)
        IN /\ calls[k].request.name = fragment \o src \o "."
           /\ Len(calls[k].request.name) = Len(fragment) + Len(src) + 1

C8_Witness ==
    \E k \in 1..Len(calls) :
        /\ queries[calls[k].pair.q] = Domain("example.com")
        /\ sources[calls[k].pair.s] = "zen.spamhaus.org"
        /\ calls[k].request.name = "example.com.zen.spamhaus.org."

\* C9: the k-th request is for the k-th pair of the query-major order (so no
\* pair is resolved twice), a request is sent only when every earlier lookup
\* has returned, and once a lookup has returned a non-NotFound error no
\* request is sent any more.
C9_CallsInv ==
    /\ \A k \in 1..Len(calls) : calls[k].pair = PairAt(k - 1)
    /\ IF pc = "resolve" THEN Len(calls) = Len(lookups) + 1
                         ELSE Len(calls) <= Len(lookups)
    /\ (\E k \in 1..Len(lookups) : NonNotFoundErr(lookups[k].ret)) => pc = "done"

C9_SequentialFailFast ==
    /\ []C9_CallsInv
    /\ [][(\E k \in 1..Len(lookups) : NonNotFoundErr(lookups[k].ret)) => calls' = calls]_vars
    /\ [][calls' # calls =>
             /\ Len(calls') = Len(calls) + 1
             /\ Len(lookups) = Len(calls)
             /\ \A k \in 1..Len(lookups) : lookups[k].ret.tag = "Ok"]_vars

C9_Witness ==
    /\ Len(calls) = 2
    /\ NQ * NS = 4
    /\ pc = "done"
    /\ ret.tag = "Err"
    /\ reply # None

====
